---- MODULE Spec2Model ----
(***************************************************************************)
(* Model of the PON polling pipeline of src/pon-monitoring/poller.py with  *)
(* the ZTE vendor profile of src/pon-monitoring/vendors/zte.py.            *)
(*                                                                         *)
(* The coordinator (PONPortPoller.run / poll_all_olts) and one asyncio     *)
(* task per OLT (poll_olt) are the processes.  A task is suspended only at *)
(* an await that really yields (pool acquire, conn.fetch, conn.execute);   *)
(* the SNMP reads, the InfluxDB write, the Redis calls and check_thresholds*)
(* are synchronous, so each action below is one segment of code between    *)
(* two such awaits.                                                        *)
(*                                                                         *)
(* A Python dict is a function whose DOMAIN is the set of keys present.    *)
(* A Python value that may be None is a sequence: <<>> is None and <<v>>   *)
(* is the number v.                                                        *)
(***************************************************************************)
EXTENDS Integers, Sequences, FiniteSets, TLC

\* ---------------------------------------------------------------- bounds
\* number of OLT rows with status = 'active' in the inventory
NumOlts == 3
\* number of active PON ports of each OLT
PortsPerOlt == 2
\* number of poll cycles the loop of run() is followed for
MaxCycles == 2
\* number of I/O errors (raised exceptions) injected in one run
MaxFaults == 1
\* largest measured duration of a fan-out, in seconds
MaxElapsed == 3
\* the configured POLL_INTERVAL, in seconds
PollInterval == 2

\* ------------------------------------------------------- program constants
\* asyncpg.create_pool(max_size=10)
PoolMaxSize == 10
\* a pool smaller than the number of OLTs, for the runs that exhaust it
SmallPool == 2
\* asyncio.sleep(10) after an error in the main loop
ErrorSleep == 10
\* redis expire(cache_key, 300)
CacheTtl == 300
\* ZTEVendor.calculate_utilization port_capacity = 10000000000 bit/s,
\* counted in units of 10^8 bit/s (counters are read in the same unit)
PortCapacity == 100

OLTS == 1..NumOlts
PORTS == OLTS \X (1..PortsPerOlt)

None == <<>>
Some(v) == <<v>>

\* Python truthiness of an optional number: None and 0 are falsy
Truthy(x) == x # None /\ x # Some(0)
\* Python "x or 0"
OrZero(x) == IF Truthy(x) THEN x[1] ELSE 0
\* dict.get(k) and dict.get(k, d)
Get(m, k) == IF k \in DOMAIN m THEN m[k] ELSE None
GetD(m, k, d) == IF k \in DOMAIN m THEN m[k] ELSE Some(d)

Max(a, b) == IF a >= b THEN a ELSE b
Min(a, b) == IF a <= b THEN a ELSE b

\* ------------------------------------------------------------- inventory
\* olt['vendor'] of the inventory rows: the last OLT carries a tag of the
\* vendor registry that the poller's own table does not hold.
OltVendor(o) == IF o = 3 THEN "VSOL" ELSE "ZTE"

\* variant: the table also holds a profile for the tag of the last OLT
vendor_map_wider == {"ZTE", "Huawei", "VSOL"}

\* VENDORS of vendors/__init__.py: the tags the registry reports as
\* supported
VENDORS == {"ZTE", "HUAWEI", "FIBERHOME", "VSOL"}

\* self.vendor_map
vendor_map == {"ZTE", "Huawei"}

\* pon_port['threshold_*'] of the port rows: the usual limits on the first
\* port of every OLT, a temperature limit below zero on the others
Thresholds(p) ==
  IF p[2] = 1
  THEN [temperature_high |-> 60, utilization_high |-> 80, rx_power_low |-> -28]
  ELSE [temperature_high |-> -5, utilization_high |-> 80, rx_power_low |-> -28]

\* ---------------------------------------------------------- ZTE profile
\* ZTEVendor.PON_PORT_OIDS.keys(): the metrics read for a port
PON_PORT_OIDS ==
  {"temperature", "voltage", "tx_power", "rx_power", "tx_bias",
   "bandwidth_in", "bandwidth_out"}

\* What a parse function is given: the integer of the varBind, None, or a
\* value that float() does not take
IntRaw(r) == [kind |-> "int", v |-> r]
MissingRaw == [kind |-> "none", v |-> 0]
TextRaw == [kind |-> "text", v |-> 0]

\* float(value) / d, kept as the fraction it is
Ratio(n, d) == [num |-> n, den |-> d]

\* variant: a raw power of 0 is a reading of 0.0 dBm
zte_parse_power_keeps_zero(value) ==
  IF value.kind = "int" THEN Some(Ratio(value.v, 100)) ELSE None

\* ZTEVendor.parse_power, parse_temperature, parse_voltage
zte_parse_power(value) ==
  IF value.kind = "none" \/ (value.kind = "int" /\ value.v = 0) THEN None
  ELSE IF value.kind = "int" THEN Some(Ratio(value.v, 100))
  ELSE None
zte_parse_temperature(value) ==
  IF value.kind = "int" THEN Some(Ratio(value.v, 256)) ELSE None
zte_parse_voltage(value) ==
  IF value.kind = "int" THEN Some(Ratio(value.v, 10000)) ELSE None

\* the whole part of a parsed value (the devices of the polling loop
\* return raw values that divide without rest)
Whole(x) == IF x = None THEN None ELSE Some(x[1].num \div x[1].den)

\* raw is the integer the device returned (never None for a varBind)
parse_power(raw) == Whole(zte_parse_power(IntRaw(raw)))
parse_temperature(raw) == Whole(zte_parse_temperature(IntRaw(raw)))
parse_voltage(raw) == Whole(zte_parse_voltage(IntRaw(raw)))
calculate_utilization(bandwidth_in, bandwidth_out) ==
  Min(100, ((bandwidth_in + bandwidth_out) * 100) \div PortCapacity)

\* ------------------------------------------- VSOL and FiberHome profiles
\* the 0.0 returned by an "except (ValueError, TypeError)"
ZeroFloat == Ratio(0, 1)

\* variant: the limits -40 dBm and 10 dBm are out of range
vsol_parse_power_open_range(raw_value) ==
  IF raw_value.kind = "int"
  THEN IF raw_value.v = 0 \/ raw_value.v <= -4000 \/ raw_value.v >= 1000
       THEN None
       ELSE Some(Ratio(raw_value.v, 100))
  ELSE None

\* VSOLVendor.parse_temperature, parse_voltage, parse_power; the tests
\* "value < -40" and "value > 10" of value = raw / 100 are taken on raw
vsol_parse_temperature(raw_value) ==
  IF raw_value.kind = "int" THEN Some(Ratio(raw_value.v, 1000)) ELSE Some(ZeroFloat)
vsol_parse_voltage(raw_value) ==
  IF raw_value.kind = "int" THEN Some(Ratio(raw_value.v, 1000)) ELSE Some(ZeroFloat)
vsol_parse_power(raw_value) ==
  IF raw_value.kind = "int"
  THEN IF raw_value.v = 0 \/ raw_value.v < -4000 \/ raw_value.v > 1000
       THEN None
       ELSE Some(Ratio(raw_value.v, 100))
  ELSE None

\* FiberHomeVendor.parse_temperature, parse_voltage, parse_power
fiberhome_parse_temperature(raw_value) ==
  IF raw_value.kind = "int" THEN Some(Ratio(raw_value.v, 100)) ELSE Some(ZeroFloat)
fiberhome_parse_voltage(raw_value) ==
  IF raw_value.kind = "int" THEN Some(Ratio(raw_value.v, 1000)) ELSE Some(ZeroFloat)
fiberhome_parse_power(raw_value) ==
  IF raw_value.kind = "int"
  THEN IF raw_value.v > 5000 \/ raw_value.v < -5000
       THEN None
       ELSE Some(Ratio(raw_value.v, 100))
  ELSE None

\* calculate_utilization of vendors/vsol.py and vendors/fiberhome.py.  Byte
\* counters are counted in units of 125000 bytes (one megabit), so that
\* (bytes * 8) / interval / 1_000_000 is counter / interval.
vsol_calculate_utilization(bytes_in, bytes_out, interval, max_bandwidth) ==
  IF interval <= 0 \/ max_bandwidth <= 0 THEN 0
  ELSE LET total_bytes == bytes_in + bytes_out
           utilization == (total_bytes * 100) \div (interval * max_bandwidth)
       IN Min(Max(utilization, 0), 100)

fiberhome_calculate_utilization(traffic_in, traffic_out, interval, max_bandwidth) ==
  IF interval <= 0 \/ max_bandwidth <= 0 THEN 0
  ELSE LET total_bits == traffic_in + traffic_out
           utilization == (total_bits * 100) \div (interval * max_bandwidth)
       IN Min(Max(utilization, 0), 100)

\* --------------------------------------------------------- device inputs
\* What the device answers for one port: a function from the metric names
\* whose read succeeded to the raw integer returned.  A name outside the
\* domain is a read that ended with errorIndication / errorStatus.
Unreachable == [k \in {} |-> 0]
Hot ==
  [k \in {"temperature", "voltage", "tx_power", "rx_power", "tx_bias",
          "bandwidth_in", "bandwidth_out"} |->
     CASE k = "temperature" -> 16640
       [] k = "voltage" -> 30000
       [] k = "tx_power" -> 0
       [] k = "rx_power" -> -2000
       [] k = "tx_bias" -> 10
       [] k = "bandwidth_in" -> 30
       [] k = "bandwidth_out" -> 20]
Weak ==
  [k \in {"voltage", "tx_power", "rx_power", "bandwidth_in",
          "bandwidth_out"} |->
     CASE k = "voltage" -> 30000
       [] k = "tx_power" -> 300
       [] k = "rx_power" -> -3100
       [] k = "bandwidth_in" -> 50
       [] k = "bandwidth_out" -> 40]
Readings == {Unreachable, Hot, Weak}

\* ------------------------------------------------------------ MetricReader
\* the value stored for one answered metric (poller.py 253-261)
ParseMetric(metric_name, value) ==
  CASE metric_name = "temperature" -> parse_temperature(value)
    [] metric_name = "voltage" -> parse_voltage(value)
    [] metric_name \in {"tx_power", "rx_power"} -> parse_power(value)
    [] OTHER -> Some(value)

OnuKeys == {"online_onus", "offline_onus", "total_onus"}

\* variant: the first metric that is not answered ends the read with None
snmp_get_pon_metrics_aborts(reading) ==
  IF PON_PORT_OIDS \subseteq DOMAIN reading
  THEN [k \in PON_PORT_OIDS \cup {"utilization"} \cup OnuKeys |->
          IF k \in OnuKeys THEN Some(0)
          ELSE IF k = "utilization"
               THEN Some(calculate_utilization(reading["bandwidth_in"],
                                               reading["bandwidth_out"]))
               ELSE ParseMetric(k, reading[k])]
  ELSE [k \in {} |-> 0]

\* snmp_get_pon_metrics when no exception is raised: the dict returned for
\* the device answers `reading`
snmp_get_pon_metrics(reading) ==
  LET answered == PON_PORT_OIDS \cap DOMAIN reading
      both == {"bandwidth_in", "bandwidth_out"} \subseteq answered
      keys == answered \cup (IF both THEN {"utilization"} ELSE {}) \cup OnuKeys
  IN [k \in keys |->
        IF k \in OnuKeys THEN Some(0)
        ELSE IF k = "utilization"
             THEN Some(calculate_utilization(reading["bandwidth_in"],
                                             reading["bandwidth_out"]))
             ELSE ParseMetric(k, reading[k])]

\* "if not metrics": None and the empty dict are falsy
NoData(metrics) == DOMAIN metrics = {}

\* ------------------------------------------------------------ HealthScorer
\* variant: the limits of the utilization bands belong to the upper band
UtilizationPenaltyInclusive(metrics) ==
  LET utilization == GetD(metrics, "utilization", 0)[1]
  IN IF utilization >= 90 THEN 30
     ELSE IF utilization >= 80 THEN 20
     ELSE IF utilization >= 70 THEN 10 ELSE 0

UtilizationPenalty(metrics) ==
  LET utilization == GetD(metrics, "utilization", 0)[1]
  IN IF utilization > 90 THEN 30
     ELSE IF utilization > 80 THEN 20
     ELSE IF utilization > 70 THEN 10 ELSE 0

\* variant: one temperature band only
TemperaturePenaltyFlat(metrics) ==
  LET temperature == Get(metrics, "temperature")
  IN IF Truthy(temperature) /\ temperature[1] > 60 THEN 10 ELSE 0

TemperaturePenalty(metrics) ==
  LET temperature == Get(metrics, "temperature")
  IN IF Truthy(temperature)
     THEN IF temperature[1] > 70 THEN 20
          ELSE IF temperature[1] > 60 THEN 10 ELSE 0
     ELSE 0

RxPowerPenalty(metrics) ==
  LET rx_power == Get(metrics, "rx_power")
  IN IF Truthy(rx_power)
     THEN IF rx_power[1] < -30 THEN 30
          ELSE IF rx_power[1] < -28 THEN 15 ELSE 0
     ELSE 0

\* offline_onus / total_onus > 0.3 and > 0.2, without fractions
OfflinePenalty(metrics) ==
  LET total_onus == GetD(metrics, "total_onus", 0)[1]
      offline_onus == GetD(metrics, "offline_onus", 0)[1]
  IN IF total_onus > 0
     THEN IF offline_onus * 10 > 3 * total_onus THEN 20
          ELSE IF offline_onus * 10 > 2 * total_onus THEN 10 ELSE 0
     ELSE 0

calculate_health_score(metrics) ==
  Max(0, 100 - UtilizationPenalty(metrics) - TemperaturePenalty(metrics)
             - RxPowerPenalty(metrics) - OfflinePenalty(metrics))

\* ------------------------------------------------------- ThresholdEvaluator
\* One "metrics.get(k, 0) > limit" test followed by the use of metrics[k]:
\* "raise" when the comparison meets None (TypeError) or the test passes on
\* the default 0 of a missing key (KeyError at metrics[k]).
HighCheck(metrics, k, limit) ==
  IF k \in DOMAIN metrics
  THEN IF metrics[k] = None THEN "raise"
       ELSE IF metrics[k][1] > limit THEN "alert" ELSE "quiet"
  ELSE IF 0 > limit THEN "raise" ELSE "quiet"

\* "metrics.get('rx_power') and metrics['rx_power'] < limit"
LowCheck(metrics, k, limit) ==
  IF Truthy(Get(metrics, k)) /\ metrics[k][1] < limit THEN "alert" ELSE "quiet"

\* check_thresholds: the alerts printed, in order; nothing is printed when
\* one of the tests raises, because the printing loop comes last.
check_thresholds(thresholds, metrics) ==
  LET t == HighCheck(metrics, "temperature", thresholds.temperature_high)
      u == HighCheck(metrics, "utilization", thresholds.utilization_high)
      r == LowCheck(metrics, "rx_power", thresholds.rx_power_low)
  IN IF t = "raise" \/ u = "raise"
     THEN [raised |-> TRUE, alerts |-> <<>>]
     ELSE [raised |-> FALSE,
           alerts |-> (IF t = "alert" THEN <<"temperature">> ELSE <<>>)
                      \o (IF u = "alert" THEN <<"utilization">> ELSE <<>>)
                      \o (IF r = "alert" THEN <<"rx_power">> ELSE <<>>)]

\* ------------------------------------------------------------ sink records
\* the columns of the UPDATE pon_ports statement (poller.py 152-180)
PgRow(metrics, health_score, now) ==
  [temperature |-> Get(metrics, "temperature"),
   voltage |-> Get(metrics, "voltage"),
   tx_power |-> Get(metrics, "tx_power"),
   rx_power |-> Get(metrics, "rx_power"),
   utilization |-> Get(metrics, "utilization"),
   online_onus |-> GetD(metrics, "online_onus", 0),
   health_score |-> health_score,
   last_poll |-> now]

\* the fields of the InfluxDB point: float(metrics.get(k) or 0)
InfluxPoint(p, metrics, health_score, now) ==
  [pon_port_id |-> p, olt_id |-> p[1],
   temperature |-> OrZero(Get(metrics, "temperature")),
   voltage |-> OrZero(Get(metrics, "voltage")),
   tx_power |-> OrZero(Get(metrics, "tx_power")),
   rx_power |-> OrZero(Get(metrics, "rx_power")),
   utilization |-> OrZero(Get(metrics, "utilization")),
   online_onus |-> OrZero(Get(metrics, "online_onus")),
   health_score |-> health_score,
   time |-> now]

\* str(x or 0) of a float metric: "65.0" for 65.0 and "0" for None or 0.0
StrFloatOrZero(x) == IF Truthy(x) THEN ToString(x[1]) \o ".0" ELSE "0"

\* the mapping of redis hset (poller.py 205-214)
CacheHash(metrics, health_score, now) ==
  [temperature |-> StrFloatOrZero(Get(metrics, "temperature")),
   voltage |-> StrFloatOrZero(Get(metrics, "voltage")),
   tx_power |-> StrFloatOrZero(Get(metrics, "tx_power")),
   rx_power |-> StrFloatOrZero(Get(metrics, "rx_power")),
   utilization |-> StrFloatOrZero(Get(metrics, "utilization")),
   online_onus |-> ToString(OrZero(Get(metrics, "online_onus"))),
   health_score |-> ToString(health_score),
   timestamp |-> now]

\* ------------------------------------------------------------------- state
VARIABLES
  status,     \* inventory: olts.status of each OLT row
  answers,    \* the answers the devices of this run may give to a port read
  pc,         \* where run() is: "fetch_olts", "gather", "aggregate", "sleep"
  cycle,      \* number of cycles started; the logical clock of NOW()
  olts,       \* the rows fetched by poll_all_olts in this cycle
  task,       \* per OLT, the state of its poll_olt coroutine
  plog,       \* per port, what its poll of this cycle did
  pg,         \* latest-state store: the pon_ports row of each port
  influx,     \* time-series store: the points written, per port
  cache,      \* Redis: the hash and its time-to-live, per port (ttl 0: none)
  last_poll,  \* olts.last_poll of each OLT
  results,    \* success and failed of the cycle's aggregate
  duration,   \* time.time() - start_time of the cycle
  sleepFor,   \* argument of the asyncio.sleep in progress
  inUse,      \* connections checked out of db_pool
  faults,     \* number of exceptions raised by I/O so far
  max_size,   \* max_size of db_pool
  arg,        \* argument of the function applied on its own
  out,        \* its result
  called,     \* whether it has been applied
  conn,       \* the poll_olt coroutines inside an "async with ... acquire()"
  opened      \* the store clients made by initialize() and not closed since

\* the variables the polling loop does not write when every statement is
\* taken as one step
aux == <<max_size, arg, out, called, conn, opened>>

\* the variables of the polling loop
loop ==
  <<status, answers, pc, cycle, olts, task, plog, pg, influx, cache, last_poll, results,
    duration, sleepFor, inUse, faults>>

\* the variables of the polling loop but the number of connections in use
loop_but_inUse ==
  <<status, answers, pc, cycle, olts, task, plog, pg, influx, cache, last_poll, results,
    duration, sleepFor, faults>>

\* the variables of the polling loop but the position of run()
loop_but_pc ==
  <<status, answers, cycle, olts, task, plog, pg, influx, cache, last_poll, results,
    duration, sleepFor, inUse, faults>>

vars ==
  <<status, answers, pc, cycle, olts, task, plog, pg, influx, cache, last_poll, results,
    duration, sleepFor, inUse, faults, aux>>

NoRow == [k \in {} |-> 0]

IdleTask == [pc |-> "idle", idx |-> 0, res |-> "none", err |-> "none",
             metrics |-> NoRow, health_score |-> 0]

\* a port not yet polled in the cycle
FreshLog == [read |-> "no", answered |-> {}, metrics |-> NoRow, pgw |-> "no", tsw |-> "no",
             cw |-> "no", alerts |-> <<>>, checked |-> "no"]

\* The runs followed: every OLT active with devices that answer every
\* read, and one active OLT whose device may give any of the answers.
Environments ==
  {[status |-> [o \in OLTS |-> "active"], answers |-> {Hot}],
   [status |-> [o \in OLTS |-> IF o = 1 THEN "active" ELSE "inactive"],
    answers |-> Readings]}

\* SELECT * FROM olts WHERE status = 'active'
ActiveOlts == {o \in OLTS : status[o] = "active"}

\* no function is applied on its own in a run of the polling loop
\* initialize(): the pool, the cache client and the time-series client
Stores == {"db_pool", "redis_client", "influx_client"}

AuxIdle ==
  arg = NoRow /\ out = NoRow /\ called = FALSE /\ conn = {} /\ opened = Stores

\* the poller after init_connections, before the first cycle
LoopStart ==
  /\ pc = "fetch_olts"
  /\ cycle = 0
  /\ olts = {}
  /\ task = [o \in OLTS |-> IdleTask]
  /\ plog = [p \in PORTS |-> FreshLog]
  /\ pg = [p \in PORTS |-> NoRow]
  /\ influx = [p \in PORTS |-> <<>>]
  /\ cache = [p \in PORTS |-> [hash |-> NoRow, ttl |-> 0]]
  /\ last_poll = [o \in OLTS |-> 0]
  /\ results = [success |-> 0, failed |-> 0]
  /\ duration = 0
  /\ sleepFor = 0
  /\ inUse = 0
  /\ faults = 0

Init ==
  /\ \E e \in Environments : status = e.status /\ answers = e.answers
  /\ max_size = PoolMaxSize
  /\ AuxIdle
  /\ LoopStart

\* an I/O call may raise while the fault budget lasts
MayFail == faults < MaxFaults

\* --------------------------------------------------------- PollOrchestrator
\* variant: an exception of the cycle leaves the "while True" of run()
MainLoopErrorBreaks == "stopped"

\* the "except Exception" of run(): the error is printed and the loop
\* sleeps before its next pass
MainLoopError == "error_sleep"

\* poll_all_olts up to the gather: acquire a connection, fetch the active
\* OLT rows and create one poll_olt coroutine for each; an exception of the
\* acquire or of the fetch reaches the "except Exception" of run()
poll_all_olts_fetch ==
  /\ pc = "fetch_olts"
  /\ cycle < MaxCycles
  /\ cycle' = cycle + 1
  /\ \/ /\ inUse < PoolMaxSize
        /\ inUse' = inUse + 1
        /\ olts' = ActiveOlts
        /\ task' = [o \in OLTS |-> IF o \in ActiveOlts
                                    THEN [IdleTask EXCEPT !.pc = "created"]
                                    ELSE IdleTask]
        /\ pc' = "gather"
        /\ UNCHANGED <<sleepFor, faults>>
     \/ /\ MayFail
        /\ faults' = faults + 1
        /\ pc' = MainLoopError
        /\ sleepFor' = ErrorSleep
        /\ UNCHANGED <<inUse, olts, task>>
  /\ UNCHANGED <<aux, status, answers, plog, pg, influx, cache, last_poll, results, duration>>

\* "r is True" of the result of one coroutine
IsSuccess(t) == t.res = "true"

\* variant: the wait ends with the first coroutine that finishes
GatherFirstCompleted == \E o \in olts : task[o].pc = "done"

\* asyncio.gather(*tasks, return_exceptions=True) returns when every
\* coroutine has finished
GatherDone == \A o \in olts : task[o].pc = "done"

\* the lines after the gather: count, leave the "async with" (release)
poll_all_olts_aggregate ==
  /\ pc = "gather"
  /\ GatherDone
  /\ LET success == Cardinality({o \in olts : IsSuccess(task[o])})
     IN results' = [success |-> success, failed |-> Cardinality(olts) - success]
  /\ inUse' = inUse - 1
  /\ pc' = "aggregate"
  /\ UNCHANGED <<aux, status, answers, cycle, olts, task, plog, pg, influx, cache, last_poll,
                 duration, sleepFor, faults>>

\* variant: the floor of the sleep is 0 instead of 1
SleepTimeNoFloor(interval, elapsed) == Max(0, interval - elapsed)

\* max(1, self.poll_interval - duration)
SleepTime(interval, elapsed) == Max(1, interval - elapsed)

\* run(): measure the duration of the cycle and start the sleep
run_sleep ==
  /\ pc = "aggregate"
  /\ \E d \in 0..MaxElapsed :
       /\ duration' = d
       /\ sleepFor' = SleepTime(PollInterval, d)
  /\ pc' = "sleep"
  /\ UNCHANGED <<aux, status, answers, cycle, olts, task, plog, pg, influx, cache, last_poll,
                 results, inUse, faults>>

\* the sleep ends and the loop of run() starts the next cycle; the values
\* of the finished cycle are dropped
run_wake ==
  /\ pc \in {"sleep", "error_sleep"}
  /\ pc' = "fetch_olts"
  /\ olts' = {}
  /\ task' = [o \in OLTS |-> IdleTask]
  /\ plog' = [p \in PORTS |-> FreshLog]
  /\ results' = [success |-> 0, failed |-> 0]
  /\ duration' = 0
  /\ sleepFor' = 0
  /\ UNCHANGED <<aux, status, answers, cycle, pg, influx, cache, last_poll, inUse, faults>>

\* ------------------------------------------------------------------ poll_olt
\* the port the coroutine of OLT o is handling
CurPort(o) == <<o, task[o].idx>>

\* a coroutine that returns res
Finished(t, res, err) == [t EXCEPT !.pc = "done", !.res = res, !.err = err]

\* variant: the port loop is left after its first pass
NextPortBreaks(t) == [t EXCEPT !.pc = "record"]

\* "for pon_port in pon_ports": the next port, or the last-poll update
NextPort(t) ==
  IF t.idx < PortsPerOlt
  THEN [t EXCEPT !.pc = "read", !.idx = @ + 1]
  ELSE [t EXCEPT !.pc = "record"]

\* variant: the error of a port leaves poll_pon_port and ends poll_olt
PortErrorPropagates(t) == Finished(t, "false", "port")

\* the "except Exception" of poll_pon_port: the error is printed and the
\* call returns to the loop of poll_olt
PortError(t) == NextPort(t)

\* variant: the first failing coroutine cancels its siblings
OltErrorCancelsSiblings(o, err) ==
  [x \in OLTS |->
     IF x = o THEN Finished(task[x], "false", err)
     ELSE IF task[x].pc \notin {"idle", "done"}
          THEN Finished(task[x], "false", "cancelled")
          ELSE task[x]]

\* variant: the "except Exception" of poll_olt returns True
OltErrorSwallowed(o, err) == [task EXCEPT ![o] = Finished(@, "true", err)]

\* the "except Exception" of poll_olt: the coroutine of o returns False and
\* no other coroutine is touched
OltError(o, err) == [task EXCEPT ![o] = Finished(@, "false", err)]

\* poll_olt up to the port loop: vendor lookup, then fetch of the ports
poll_olt_start(o) ==
  /\ pc = "gather"
  /\ o \in olts
  /\ task[o].pc = "created"
  /\ \/ /\ OltVendor(o) \notin vendor_map
        /\ task' = [task EXCEPT ![o] = Finished(@, "false", "vendor")]
        /\ UNCHANGED faults
     \/ /\ OltVendor(o) \in vendor_map
        /\ inUse < PoolMaxSize
        /\ task' = [task EXCEPT ![o] = NextPort(@)]
        /\ UNCHANGED faults
     \/ /\ OltVendor(o) \in vendor_map
        /\ inUse < PoolMaxSize
        /\ MayFail
        /\ faults' = faults + 1
        /\ task' = OltError(o, "ports")
  /\ UNCHANGED <<aux, status, answers, pc, cycle, olts, plog, pg, influx, cache, last_poll,
                 results, duration, sleepFor, inUse>>

\* poll_pon_port up to the latest-state write: read the metrics and score
poll_pon_port_read(o) ==
  /\ pc = "gather"
  /\ o \in olts
  /\ task[o].pc = "read"
  /\ LET p == CurPort(o)
     IN \/ /\ MayFail
           /\ faults' = faults + 1
           /\ plog' = [plog EXCEPT ![p].read = "raised"]
           /\ task' = [task EXCEPT ![o] = NextPort(@)]
        \/ \E reading \in answers :
             LET metrics == snmp_get_pon_metrics(reading)
             IN /\ plog' = [plog EXCEPT ![p].read = "dict",
                                        ![p].answered = DOMAIN reading,
                                        ![p].metrics = metrics]
                /\ task' = [task EXCEPT ![o] =
                     IF NoData(metrics) THEN NextPort(@)
                     ELSE [@ EXCEPT !.pc = "pg", !.metrics = metrics,
                             !.health_score = calculate_health_score(metrics)]]
                /\ UNCHANGED faults
  /\ UNCHANGED <<aux, status, answers, pc, cycle, olts, pg, influx, cache, last_poll, results,
                 duration, sleepFor, inUse>>

\* variant: the other sinks are written although the latest-state write failed
PgWriteFailedContinues(t) == [t EXCEPT !.pc = "sinks"]

\* an exception of the latest-state write leaves the "try" of poll_pon_port:
\* nothing after it in the same poll is run
PgWriteFailed(t) == PortError(t)

\* poll_pon_port: UPDATE pon_ports ... WHERE id = $12
poll_pon_port_write_latest(o) ==
  /\ pc = "gather"
  /\ o \in olts
  /\ task[o].pc = "pg"
  /\ inUse < PoolMaxSize
  /\ LET p == CurPort(o)
     IN \/ /\ pg' = [pg EXCEPT ![p] =
                  PgRow(task[o].metrics, task[o].health_score, cycle)]
           /\ plog' = [plog EXCEPT ![p].pgw = "ok"]
           /\ task' = [task EXCEPT ![o].pc = "sinks"]
           /\ UNCHANGED faults
        \/ /\ MayFail
           /\ faults' = faults + 1
           /\ plog' = [plog EXCEPT ![p].pgw = "fail"]
           /\ task' = [task EXCEPT ![o] = PgWriteFailed(@)]
           /\ UNCHANGED pg
  /\ UNCHANGED <<aux, status, answers, pc, cycle, olts, influx, cache, last_poll, results,
                 duration, sleepFor, inUse>>

\* variant: the cache is written before the time-series point
SinkStepsCacheFirst == <<"hset", "expire", "influx">>

\* the synchronous calls after the latest-state write, in program order:
\* influx_write_api.write, redis hset, redis expire
SinkSteps == <<"influx", "hset", "expire">>

\* the calls that returned when call number f raised (f = 0: none raised)
StepsDone(f) ==
  {SinkSteps[i] : i \in 1..(IF f = 0 THEN Len(SinkSteps) ELSE f - 1)}

StepStatus(f, steps) ==
  IF f # 0 /\ SinkSteps[f] \in steps THEN "fail"
  ELSE IF steps \subseteq StepsDone(f) THEN "ok" ELSE "no"

\* poll_pon_port after the latest-state write: time-series point, cache
\* hash and expiry, then check_thresholds
poll_pon_port_write_sinks(o) ==
  /\ pc = "gather"
  /\ o \in olts
  /\ task[o].pc = "sinks"
  /\ \E f \in 0..Len(SinkSteps) :
       LET p == CurPort(o)
           m == task[o].metrics
           h == task[o].health_score
           done == StepsDone(f)
           ct == check_thresholds(Thresholds(p), m)
       IN /\ f # 0 => MayFail
          /\ faults' = IF f # 0 THEN faults + 1 ELSE faults
          /\ influx' = IF "influx" \in done
                       THEN [influx EXCEPT ![p] = Append(@, InfluxPoint(p, m, h, cycle))]
                       ELSE influx
          /\ cache' = [cache EXCEPT
                 ![p].hash = IF "hset" \in done THEN CacheHash(m, h, cycle) ELSE @,
                 ![p].ttl = IF "expire" \in done THEN CacheTtl ELSE @]
          /\ plog' = [plog EXCEPT
                 ![p].tsw = StepStatus(f, {"influx"}),
                 ![p].cw = StepStatus(f, {"hset", "expire"}),
                 ![p].checked = IF f # 0 THEN "no"
                                ELSE IF ct.raised THEN "fail" ELSE "ok",
                 ![p].alerts = IF f = 0 THEN ct.alerts ELSE <<>>]
          /\ task' = [task EXCEPT ![o] =
                 IF f # 0 \/ ct.raised THEN PortError(@) ELSE NextPort(@)]
  /\ UNCHANGED <<aux, status, answers, pc, cycle, olts, pg, last_poll, results, duration,
                 sleepFor, inUse>>

\* poll_olt after the port loop: UPDATE olts SET last_poll = NOW()
poll_olt_record_last_poll(o) ==
  /\ pc = "gather"
  /\ o \in olts
  /\ task[o].pc = "record"
  /\ inUse < PoolMaxSize
  /\ \/ /\ last_poll' = [last_poll EXCEPT ![o] = cycle]
        /\ task' = [task EXCEPT ![o] = Finished(@, "true", "none")]
        /\ UNCHANGED faults
     \/ /\ MayFail
        /\ faults' = faults + 1
        /\ task' = OltError(o, "last_poll")
        /\ UNCHANGED last_poll
  /\ UNCHANGED <<aux, status, answers, pc, cycle, olts, plog, pg, influx, cache, results,
                 duration, sleepFor, inUse>>

Next ==
  \/ poll_all_olts_fetch
  \/ poll_all_olts_aggregate
  \/ run_sleep
  \/ run_wake
  \/ \E o \in OLTS : poll_olt_start(o)
  \/ \E o \in OLTS : poll_pon_port_read(o)
  \/ \E o \in OLTS : poll_pon_port_write_latest(o)
  \/ \E o \in OLTS : poll_pon_port_write_sinks(o)
  \/ \E o \in OLTS : poll_olt_record_last_poll(o)

Spec == Init /\ [][Next]_vars

\* ------------------------------------------------------------- shutdown
\* SIGINT while the loop runs.  The KeyboardInterrupt is handled by run()
\* only when it is raised in the frame of run(); raised in a coroutine of
\* the gather, or delivered to run() as the cancellation of its pending
\* await, it passes "except KeyboardInterrupt" and "except Exception" and
\* run() is left without its last lines.  Leaving poll_all_olts gives the
\* connection of its "async with" back.
run_keyboard_interrupt ==
  /\ pc \in {"fetch_olts", "gather", "aggregate", "sleep", "error_sleep"}
  /\ pc' \in {"cleanup", "exited"}
  /\ inUse' = 0
  /\ UNCHANGED <<aux, status, answers, cycle, olts, task, plog, pg, influx, cache,
                 last_poll, results, duration, sleepFor, faults>>

\* the lines after the loop: db_pool.close() and influx_client.close()
run_cleanup ==
  /\ pc = "cleanup"
  /\ pc' = "exited"
  /\ opened' = opened \ {"db_pool", "influx_client"}
  /\ UNCHANGED <<loop_but_pc, max_size, arg, out, called, conn>>

ShutdownNext == Next \/ run_keyboard_interrupt \/ run_cleanup

\* the polling loop with a shutdown signal at any moment
SpecShutdown == Init /\ [][ShutdownNext]_vars

\* the polling loop when the event loop keeps running what can run and
\* every I/O call returns or raises
SpecLoop == Init /\ [][Next]_vars /\ WF_vars(Next)

\* ===================================================================
\* The polling loop with every "async with self.db_pool.acquire()" in two
\* steps: the acquire, and the statement followed by the release
\* ===================================================================
\* variant: the pool hands out a connection whatever the number in use
PoolHasFreeAlways == TRUE

\* db_pool.acquire() returns when a connection is free; no timeout is
\* given, so the caller waits as long as there is none
PoolHasFree == inUse < max_size

\* every OLT is active and the pool is smaller than their number
PoolInit ==
  /\ status = [o \in OLTS |-> "active"]
  /\ answers = {Hot}
  /\ max_size = SmallPool
  /\ AuxIdle
  /\ LoopStart

\* the coroutine of o stands before one of its three "async with"
AtAcquire(o) ==
  \/ task[o].pc = "created" /\ OltVendor(o) \in vendor_map
  \/ task[o].pc \in {"pg", "record"}

\* poll_olt with an unknown vendor tag: returns before any acquire
poll_olt_unsupported(o) ==
  /\ pc = "gather"
  /\ o \in olts
  /\ task[o].pc = "created"
  /\ OltVendor(o) \notin vendor_map
  /\ task' = [task EXCEPT ![o] = Finished(@, "false", "vendor")]
  /\ UNCHANGED <<aux, status, answers, pc, cycle, olts, plog, pg, influx, cache, last_poll,
                 results, duration, sleepFor, inUse, faults>>

\* "async with self.db_pool.acquire() as conn": entering
db_pool_acquire(o) ==
  /\ pc = "gather"
  /\ o \in olts
  /\ o \notin conn
  /\ AtAcquire(o)
  /\ PoolHasFree
  /\ inUse' = inUse + 1
  /\ conn' = conn \cup {o}
  /\ UNCHANGED <<loop_but_inUse, max_size, arg, out, called, opened>>

\* leaving the "async with", by the end of the block or by an exception
Release(o) == inUse' = inUse - 1 /\ conn' = conn \ {o}

\* poll_olt: the fetch of the ports on the held connection
poll_olt_fetch_ports(o) ==
  /\ pc = "gather"
  /\ o \in conn
  /\ task[o].pc = "created"
  /\ \/ /\ task' = [task EXCEPT ![o] = NextPort(@)]
        /\ UNCHANGED faults
     \/ /\ MayFail
        /\ faults' = faults + 1
        /\ task' = OltError(o, "ports")
  /\ Release(o)
  /\ UNCHANGED <<status, answers, pc, cycle, olts, plog, pg, influx, cache, last_poll,
                 results, duration, sleepFor, max_size, arg, out, called, opened>>

\* poll_pon_port: the UPDATE of pon_ports on the held connection
poll_pon_port_execute_update(o) ==
  /\ pc = "gather"
  /\ o \in conn
  /\ task[o].pc = "pg"
  /\ LET p == CurPort(o)
     IN \/ /\ pg' = [pg EXCEPT ![p] =
                  PgRow(task[o].metrics, task[o].health_score, cycle)]
           /\ plog' = [plog EXCEPT ![p].pgw = "ok"]
           /\ task' = [task EXCEPT ![o].pc = "sinks"]
           /\ UNCHANGED faults
        \/ /\ MayFail
           /\ faults' = faults + 1
           /\ plog' = [plog EXCEPT ![p].pgw = "fail"]
           /\ task' = [task EXCEPT ![o] = PgWriteFailed(@)]
           /\ UNCHANGED pg
  /\ Release(o)
  /\ UNCHANGED <<status, answers, pc, cycle, olts, influx, cache, last_poll, results,
                 duration, sleepFor, max_size, arg, out, called, opened>>

\* poll_olt: the UPDATE of olts.last_poll on the held connection
poll_olt_execute_last_poll(o) ==
  /\ pc = "gather"
  /\ o \in conn
  /\ task[o].pc = "record"
  /\ \/ /\ last_poll' = [last_poll EXCEPT ![o] = cycle]
        /\ task' = [task EXCEPT ![o] = Finished(@, "true", "none")]
        /\ UNCHANGED faults
     \/ /\ MayFail
        /\ faults' = faults + 1
        /\ task' = OltError(o, "last_poll")
        /\ UNCHANGED last_poll
  /\ Release(o)
  /\ UNCHANGED <<status, answers, pc, cycle, olts, plog, pg, influx, cache, results,
                 duration, sleepFor, max_size, arg, out, called, opened>>

\* one step of the coroutine of OLT o
PoolStep(o) ==
  \/ poll_olt_unsupported(o)
  \/ db_pool_acquire(o)
  \/ poll_olt_fetch_ports(o)
  \/ poll_pon_port_read(o)
  \/ poll_pon_port_execute_update(o)
  \/ poll_pon_port_write_sinks(o)
  \/ poll_olt_execute_last_poll(o)

PoolNext ==
  \/ poll_all_olts_fetch
  \/ poll_all_olts_aggregate
  \/ run_sleep
  \/ run_wake
  \/ \E o \in OLTS : poll_olt_unsupported(o)
  \/ \E o \in OLTS : db_pool_acquire(o)
  \/ \E o \in OLTS : poll_olt_fetch_ports(o)
  \/ \E o \in OLTS : poll_pon_port_read(o)
  \/ \E o \in OLTS : poll_pon_port_execute_update(o)
  \/ \E o \in OLTS : poll_pon_port_write_sinks(o)
  \/ \E o \in OLTS : poll_olt_execute_last_poll(o)

\* the event loop runs every coroutine that can go on, the waiters of the
\* pool are served in the order of their arrival, and the gather returns
\* once every coroutine has finished
SpecPool ==
  /\ PoolInit
  /\ [][PoolNext]_vars
  /\ \A o \in OLTS : SF_vars(PoolStep(o))
  /\ WF_vars(poll_all_olts_aggregate)

\* ===================================================================
\* The methods of the poller applied on their own
\* ===================================================================
\* the poller stands idle while one of its methods is applied to arg
Bench ==
  /\ \E e \in Environments : status = e.status /\ answers = e.answers
  /\ max_size = PoolMaxSize
  /\ out = NoRow
  /\ called = FALSE
  /\ conn = {}
  /\ opened = Stores
  /\ LoopStart

\* ------------------------------------------------------------ MetricReader
\* a device that returns 0 for every metric it answers
Dark == [k \in PON_PORT_OIDS |-> 0]

\* every way a device can answer some of the metrics and fail the others
DeviceAnswers ==
  {[k \in S |-> d[k]] : S \in SUBSET PON_PORT_OIDS, d \in {Hot, Dark}}

ReaderInit == Bench /\ arg \in DeviceAnswers

snmp_get_pon_metrics_call ==
  /\ ~called
  /\ called' = TRUE
  /\ out' = snmp_get_pon_metrics(arg)
  /\ UNCHANGED <<loop, max_size, arg, conn, opened>>

SpecReader == ReaderInit /\ [][snmp_get_pon_metrics_call]_vars

\* ------------------------------------------------------------ HealthScorer
\* the ways a key can stand in a metric set: missing, None (where a parser
\* can return it) or a number on either side of each band limit
UtilizationCases ==
  {NoRow} \cup {"utilization" :> Some(v) :
                  v \in {0, 50, 70, 71, 80, 81, 90, 91, 95, 100}}
TemperatureCases ==
  {NoRow, "temperature" :> None}
    \cup {"temperature" :> Some(v) : v \in {0, 60, 61, 65, 70, 71, 75}}
RxPowerCases ==
  {NoRow, "rx_power" :> None}
    \cup {"rx_power" :> Some(v) : v \in {-31, -30, -29, -28, -20}}
OnuCases ==
  {("total_onus" :> Some(c[1])) @@ ("offline_onus" :> Some(c[2])) :
     c \in {<<0, 0>>, <<10, 0>>, <<10, 2>>, <<10, 3>>, <<10, 4>>}}

MetricSets ==
  {u @@ t @@ r @@ n : u \in UtilizationCases, t \in TemperatureCases,
                      r \in RxPowerCases, n \in OnuCases}

ScoreInit == Bench /\ arg \in MetricSets

calculate_health_score_call ==
  /\ ~called
  /\ called' = TRUE
  /\ out' = calculate_health_score(arg)
  /\ UNCHANGED <<loop, max_size, arg, conn, opened>>

SpecScore == ScoreInit /\ [][calculate_health_score_call]_vars

\* ---------------------------------------------------------- parse functions
\* raw integers on both sides of every limit of the parse functions
RawInts ==
  {-5001, -5000, -4001, -4000, -3999, -2000, -1, 0, 1, 50, 999, 1000, 1001,
   1500, 5000, 5001, 16640, 30000}

RawValues == {IntRaw(r) : r \in RawInts} \cup {MissingRaw, TextRaw}

ParserArgs ==
  [vendor : {"ZTE", "VSOL", "FIBERHOME"},
   metric : {"temperature", "voltage", "power"}, raw : RawValues]

ParserInit == Bench /\ arg \in ParserArgs

\* vendor_class.parse_temperature / parse_voltage / parse_power
VendorParse(vendor, metric, raw) ==
  CASE vendor = "ZTE" /\ metric = "temperature" -> zte_parse_temperature(raw)
    [] vendor = "ZTE" /\ metric = "voltage" -> zte_parse_voltage(raw)
    [] vendor = "ZTE" /\ metric = "power" -> zte_parse_power(raw)
    [] vendor = "VSOL" /\ metric = "temperature" -> vsol_parse_temperature(raw)
    [] vendor = "VSOL" /\ metric = "voltage" -> vsol_parse_voltage(raw)
    [] vendor = "VSOL" /\ metric = "power" -> vsol_parse_power(raw)
    [] vendor = "FIBERHOME" /\ metric = "temperature" ->
         fiberhome_parse_temperature(raw)
    [] vendor = "FIBERHOME" /\ metric = "voltage" -> fiberhome_parse_voltage(raw)
    [] vendor = "FIBERHOME" /\ metric = "power" -> fiberhome_parse_power(raw)

parse_call ==
  /\ ~called
  /\ called' = TRUE
  /\ out' = VendorParse(arg.vendor, arg.metric, arg.raw)
  /\ UNCHANGED <<loop, max_size, arg, conn, opened>>

SpecParsers == ParserInit /\ [][parse_call]_vars

\* ------------------------------------------------------------ utilization
\* counter values of either sign, in the unit of the profile
CounterValues == {-40, 0, 30, 60, 200}

\* the arguments of the three calculate_utilization; the ZTE function has
\* no interval and is called with its default port_capacity
UtilizationArgs ==
  [vendor : {"ZTE"}, cin : CounterValues, cout : CounterValues,
   interval : {1}, max_bandwidth : {PortCapacity}]
  \cup [vendor : {"VSOL", "FIBERHOME"}, cin : CounterValues,
         cout : CounterValues, interval : {0, 1, 2}, max_bandwidth : {0, 50, 100}]

UtilizationInit == Bench /\ arg \in UtilizationArgs

calculate_utilization_call ==
  /\ ~called
  /\ called' = TRUE
  /\ out' = CASE arg.vendor = "ZTE" ->
                  calculate_utilization(arg.cin, arg.cout)
             [] arg.vendor = "VSOL" ->
                  vsol_calculate_utilization(arg.cin, arg.cout, arg.interval,
                                             arg.max_bandwidth)
             [] arg.vendor = "FIBERHOME" ->
                  fiberhome_calculate_utilization(arg.cin, arg.cout, arg.interval,
                                                  arg.max_bandwidth)
  /\ UNCHANGED <<loop, max_size, arg, conn, opened>>

SpecUtilization == UtilizationInit /\ [][calculate_utilization_call]_vars

\* ------------------------------------------------------- ThresholdEvaluator
\* pon_port['threshold_*']: limits of either sign
ThresholdCases ==
  [temperature_high : {-5, 60}, utilization_high : {-1, 80},
   rx_power_low : {-28, 5}]

\* metric sets with each key missing, None or a number on either side of
\* the usual limits
EvaluatedSets ==
  {u @@ t @@ r :
     u \in {NoRow} \cup {"utilization" :> Some(v) : v \in {50, 85}},
     t \in {NoRow, "temperature" :> None}
            \cup {"temperature" :> Some(v) : v \in {50, 65}},
     r \in {NoRow, "rx_power" :> None}
            \cup {"rx_power" :> Some(v) : v \in {-30, -20}}}

ThresholdsInit ==
  Bench /\ arg \in [pon_port : ThresholdCases, metrics : EvaluatedSets]

check_thresholds_call ==
  /\ ~called
  /\ called' = TRUE
  /\ out' = check_thresholds(arg.pon_port, arg.metrics)
  /\ UNCHANGED <<loop, max_size, arg, conn, opened>>

SpecThresholds == ThresholdsInit /\ [][check_thresholds_call]_vars

\* ===================================================================
\* Properties
\* ===================================================================
PortsOf(o) == {p \in PORTS : p[1] = o}

\* the poll of port p in this cycle is between its read and its last step
InPoll(p) == task[p[1]].idx = p[2] /\ task[p[1]].pc \in {"pg", "sinks"}

\* the poll of port p obtained a metric set and has ended
PollEnded(p) == plog[p].read = "dict" /\ ~InPoll(p)

\* an error was raised while port p was handled in this cycle
PortFailed(p) ==
  \/ plog[p].read = "raised"
  \/ "fail" \in {plog[p].pgw, plog[p].tsw, plog[p].cw, plog[p].checked}

AfterGather == pc \in {"aggregate", "sleep"}

\* everything the poll of OLT o reads or writes
Footprint(o) ==
  <<task[o], last_poll[o],
    [p \in PortsOf(o) |-> <<plog[p], pg[p], influx[p], cache[p]>>]>>

OltStep(o) ==
  \/ poll_olt_start(o)
  \/ poll_pon_port_read(o)
  \/ poll_pon_port_write_latest(o)
  \/ poll_pon_port_write_sinks(o)
  \/ poll_olt_record_last_poll(o)

\* C1: an error in the poll of one OLT changes nothing of another OLT of
\* the cycle.  During the fan-out every step changes the task, the
\* last-poll timestamp and the port stores of at most one OLT, and an OLT
\* whose poll has not finished can always take its next step, whatever the
\* other polls did (failed or not); so its outcome is the one of the cycle
\* in which the other OLT did not fail.
C1_StepOfOneOlt ==
  (pc = "gather" /\ pc' = "gather") =>
    \A o1, o2 \in OLTS :
      (Footprint(o1)' # Footprint(o1) /\ Footprint(o2)' # Footprint(o2))
        => o1 = o2
C1_NeverBlocked ==
  pc = "gather" =>
    \A o \in olts : task[o].pc # "done" => ENABLED OltStep(o)
\* C1: both parts, in every step and every state of every cycle
C1_OltIsolation == [][C1_StepOfOneOlt]_vars /\ []C1_NeverBlocked

\* one OLT failed at its port fetch and another one of the same cycle
\* wrote all its sinks and returned True
C1_Witness ==
  /\ AfterGather
  /\ task[1].err = "ports"
  /\ task[2].res = "true"
  /\ \A p \in PortsOf(2) : plog[p].cw = "ok"

\* C2: AGGREGATE and SLEEP are reached only when every poll_olt of the cycle
\* has finished; success + failed is the number of active OLTs fetched, and
\* success counts exactly the polls that returned True (those that recorded
\* their last poll).
C2_AggregateAfterAll ==
  AfterGather =>
    /\ \A o \in olts : task[o].pc = "done" /\ task[o].res \in {"true", "false"}
    /\ olts = ActiveOlts
    /\ results.success + results.failed = Cardinality(ActiveOlts)
    /\ results.success = Cardinality({o \in olts : task[o].res = "true"})
    /\ results.failed = Cardinality({o \in olts : task[o].res = "false"})

\* a cycle of three OLTs aggregated with one success and two failures
C2_Witness ==
  /\ pc = "aggregate"
  /\ Cardinality(olts) = 3
  /\ results = [success |-> 1, failed |-> 2]

\* C3: the cache of a port is written only after the latest-state write of
\* the same poll returned, and the cache never holds a snapshot newer than
\* the one of the latest-state store.
C3_CacheNotNewer ==
  \A p \in PORTS :
    /\ plog[p].cw # "no" => plog[p].pgw = "ok"
    /\ DOMAIN cache[p].hash # {} =>
         /\ DOMAIN pg[p] # {}
         /\ cache[p].hash.timestamp <= pg[p].last_poll

\* the cache holds the snapshot of cycle 1 while the latest-state store holds
\* the one of cycle 2
C3_Witness ==
  \E p \in PORTS :
    /\ DOMAIN cache[p].hash # {}
    /\ cache[p].hash.timestamp = 1
    /\ pg[p].last_poll = 2

\* C4 (as claimed): when the latest-state write of a poll fails, the
\* time-series write and the cache write of that poll are still attempted.
C4_OtherSinksAttempted ==
  \A p \in PORTS :
    plog[p].pgw = "fail" => plog[p].tsw # "no" /\ plog[p].cw # "no"

\* C5: when the cache write of a poll fails, the latest-state row holds the
\* snapshot of that poll and exactly one time-series point of that poll
\* exists.
C5_CacheFailureKeepsOthers ==
  \A p \in PORTS :
    plog[p].cw = "fail" =>
      /\ plog[p].pgw = "ok" /\ plog[p].tsw = "ok"
      /\ pg[p] = PgRow(plog[p].metrics,
                       calculate_health_score(plog[p].metrics), cycle)
      /\ Cardinality({i \in 1..Len(influx[p]) : influx[p][i].time = cycle}) = 1
      /\ influx[p][Len(influx[p])] =
           InfluxPoint(p, plog[p].metrics,
                       calculate_health_score(plog[p].metrics), cycle)

\* the cache write of a poll failed
C5_Witness == \E p \in PORTS : plog[p].cw = "fail"

\* the alerts the evaluator is specified to emit: a metric that is present
\* and beyond its threshold, in the order temperature, utilization, rx_power
Present(metrics, k) == k \in DOMAIN metrics /\ metrics[k] # None
DueAlerts(thresholds, metrics) ==
  (IF Present(metrics, "temperature")
      /\ metrics["temperature"][1] > thresholds.temperature_high
   THEN <<"temperature">> ELSE <<>>)
  \o (IF Present(metrics, "utilization")
         /\ metrics["utilization"][1] > thresholds.utilization_high
      THEN <<"utilization">> ELSE <<>>)
  \o (IF Present(metrics, "rx_power")
         /\ metrics["rx_power"][1] < thresholds.rx_power_low
      THEN <<"rx_power">> ELSE <<>>)

\* C6 (as claimed): every poll that obtained a metric set emits, for each
\* alert kind, one alert if the threshold condition holds and none
\* otherwise, whatever the outcome of the sink writes.
C6_AlertsWhateverSinks ==
  \A p \in PORTS :
    PollEnded(p) => plog[p].alerts = DueAlerts(Thresholds(p), plog[p].metrics)

\* C7: an error raised while a port is handled stays in that port's poll:
\* the later ports of the OLT are polled, the last-poll timestamp is
\* recorded and the OLT returns True (unless the last-poll update itself
\* raises).
C7_PortErrorContained ==
  \A o \in olts :
    (\E p \in PortsOf(o) : PortFailed(p)) =>
      /\ task[o].pc \in {"record", "done"} =>
           \A p \in PortsOf(o) : plog[p].read # "no"
      /\ (task[o].pc = "done" /\ task[o].err # "last_poll") =>
           task[o].res = "true" /\ last_poll[o] = cycle

\* the first port of an OLT failed at its latest-state write, the second
\* port was written to all sinks and the OLT returned True
C7_Witness ==
  \E o \in olts :
    /\ plog[<<o, 1>>].pgw = "fail"
    /\ plog[<<o, 2>>].cw = "ok"
    /\ task[o].res = "true"
    /\ last_poll[o] = cycle

\* C8: after a fan-out of `duration` seconds the sleep is
\* max(1, interval - duration): 1 when the cycle overran or left less than a
\* second, the rest of the interval otherwise, OLT failures or not.
C8_SleepPacing ==
  pc = "sleep" =>
    /\ sleepFor >= 1
    /\ duration > PollInterval => sleepFor = 1
    /\ duration <= PollInterval - 1 => sleepFor = PollInterval - duration
    /\ duration = PollInterval => sleepFor = 1

\* a cycle with a failed OLT overran the interval and sleeps one second
C8_Witness ==
  /\ pc = "sleep"
  /\ duration > PollInterval
  /\ results.failed > 0
  /\ sleepFor = 1

\* C9 (as claimed): a power field that the vendor rule made absent is
\* stored as absent in each sink, never as 0.
C9_AbsentPowerNotZero ==
  \A p \in PORTS : \A k \in {"tx_power", "rx_power"} :
    (plog[p].read = "dict" /\ Get(plog[p].metrics, k) = None) =>
      /\ plog[p].pgw = "ok" => pg[p][k] = None
      /\ plog[p].tsw = "ok" => influx[p][Len(influx[p])][k] # 0
      /\ plog[p].cw = "ok" => cache[p].hash[k] # "0"

\* C10 (as claimed): when every metric read of a port fails, the reader
\* returns the no-data signal and no sink is written in that poll.
C10_UnreachableNoWrites ==
  \A p \in PORTS :
    (plog[p].read = "dict" /\ plog[p].answered = {}) =>
      /\ NoData(plog[p].metrics)
      /\ plog[p].pgw = "no" /\ plog[p].tsw = "no" /\ plog[p].cw = "no"

\* C11 (as claimed): an OLT for which every device read of every port
\* failed in a cycle is counted as failed in the aggregate of that cycle.
C11_UnreachableCountedFailed ==
  AfterGather =>
    \A o \in olts :
      (\A p \in PortsOf(o) :
          plog[p].read \in {"dict", "raised"} /\ plog[p].answered = {})
        => task[o].res = "false" /\ results.failed >= 1

\* the tags of the table built at poller.py 43-46
KnownTag(o) == OltVendor(o) \in {"ZTE", "Huawei"}

\* C13: an OLT whose vendor tag is not in the poller's table returns False
\* without an exception: none of its ports is read, no store and no
\* last-poll timestamp is written for it, it is counted as failed, and the
\* other OLTs of the cycle are polled (they fail only by an error of
\* their own).
C13_UnknownVendorSkipped ==
  \A o \in olts :
    ~KnownTag(o) =>
      /\ task[o].pc \in {"created", "done"}
      /\ task[o].pc = "done" => task[o].res = "false" /\ task[o].err = "vendor"
      /\ last_poll[o] = 0
      /\ \A p \in PortsOf(o) :
           /\ plog[p] = FreshLog
           /\ DOMAIN pg[p] = {} /\ influx[p] = <<>> /\ DOMAIN cache[p].hash = {}
      /\ AfterGather =>
           /\ results.failed >= 1
           /\ \A o2 \in olts :
                KnownTag(o2) =>
                  \/ task[o2].res = "true" /\ last_poll[o2] = cycle
                  \/ task[o2].err \in {"ports", "last_poll"}

\* the OLT with the unknown tag failed and the two others returned True
C13_Witness ==
  /\ AfterGather
  /\ \E o \in olts : ~KnownTag(o) /\ task[o].err = "vendor"
  /\ results = [success |-> 2, failed |-> 1]

\* the poll of port p has started and ended in this cycle
Polled(p) == plog[p].read # "no" /\ ~InPoll(p)

\* C14: within an OLT the ports are fetched, then polled one after the
\* other, then the last-poll timestamp is written: a port is started only
\* when the ports before it have ended, at most one port of an OLT is being
\* polled, and the timestamp of the cycle is there only when every port of
\* the OLT has ended.
C14_StepsInOrder ==
  pc \in {"gather", "aggregate", "sleep"} =>
    \A o \in olts :
      /\ \A p, q \in PortsOf(o) :
           /\ (p[2] < q[2] /\ plog[q].read # "no") => Polled(p)
           /\ (InPoll(p) /\ InPoll(q)) => p = q
      /\ \A p \in PortsOf(o) :
           plog[p].read # "no" => task[o].pc \notin {"idle", "created"}
      /\ last_poll[o] = cycle => \A p \in PortsOf(o) : Polled(p)

\* an OLT has recorded its last poll while a port of another OLT is being
\* polled
C14_Witness ==
  \E o1, o2 \in olts :
    /\ o1 # o2
    /\ last_poll[o1] = cycle /\ task[o1].res = "true"
    /\ \E p \in PortsOf(o2) : InPoll(p)

\* C18 (as claimed): a cache hash of a port always carries the expiry of
\* 300 seconds, also when a call of the cache write failed.
C18_CacheAlwaysExpires ==
  \A p \in PORTS : DOMAIN cache[p].hash # {} => cache[p].ttl = CacheTtl

\* C19 (as claimed): every poll of a port that obtained a metric set has
\* appended exactly one point, tagged with the port and its OLT.
C19_OnePointPerPoll ==
  \A p \in PORTS :
    /\ PollEnded(p) =>
         Cardinality({i \in 1..Len(influx[p]) : influx[p][i].time = cycle}) = 1
    /\ \A i \in 1..Len(influx[p]) :
         influx[p][i].pon_port_id = p /\ influx[p][i].olt_id = p[1]

\* C12: a failed read of one metric leaves only that metric out of the
\* result: a metric of the identifier table is a key of the returned set
\* exactly when its read was answered, and carries the parsed answer.
C12_OnlyFailedMetricAbsent ==
  called =>
    \A k \in PON_PORT_OIDS :
      /\ k \in DOMAIN out <=> k \in DOMAIN arg
      /\ k \in DOMAIN arg => out[k] = ParseMetric(k, arg[k])

\* one metric failed in the middle of the table and the six others were
\* answered
C12_Witness ==
  /\ called
  /\ DOMAIN arg = PON_PORT_OIDS \ {"tx_power"}
  /\ DOMAIN out \cap PON_PORT_OIDS = PON_PORT_OIDS \ {"tx_power"}

\* the number under key k of a metric set, where the key holds one
Val(metrics, k) == metrics[k][1]

\* the penalty bands as the specification lists them
BandUtilization(m) ==
  IF ~Present(m, "utilization") THEN 0
  ELSE IF Val(m, "utilization") > 90 THEN 30
  ELSE IF Val(m, "utilization") > 80 THEN 20
  ELSE IF Val(m, "utilization") > 70 THEN 10 ELSE 0
BandTemperature(m) ==
  IF ~Present(m, "temperature") THEN 0
  ELSE IF Val(m, "temperature") > 70 THEN 20
  ELSE IF Val(m, "temperature") > 60 THEN 10 ELSE 0
BandRxPower(m) ==
  IF ~Present(m, "rx_power") THEN 0
  ELSE IF Val(m, "rx_power") < -30 THEN 30
  ELSE IF Val(m, "rx_power") < -28 THEN 15 ELSE 0
BandOffline(m) ==
  IF ~(Present(m, "total_onus") /\ Val(m, "total_onus") > 0) THEN 0
  ELSE IF 10 * Val(m, "offline_onus") > 3 * Val(m, "total_onus") THEN 20
  ELSE IF 10 * Val(m, "offline_onus") > 2 * Val(m, "total_onus") THEN 10 ELSE 0

\* score(utilization=95, temperature absent, rx_power absent, total_onus=0)
Example15 ==
  ("utilization" :> Some(95)) @@ ("total_onus" :> Some(0))
    @@ ("offline_onus" :> Some(0))

\* C15: the health score is 100 minus the sum of the independent band
\* penalties, an integer in 0..100 for every metric set; the set with
\* utilization 95, no temperature, no rx_power and no ONU scores 70; an
\* absent temperature or rx_power costs nothing.
C15_ScoreIsBands ==
  called =>
    /\ out = 100 - BandUtilization(arg) - BandTemperature(arg)
                 - BandRxPower(arg) - BandOffline(arg)
    /\ out \in 0..100
    /\ arg = Example15 => out = 70
    /\ (~Present(arg, "temperature") /\ ~Present(arg, "rx_power")) =>
         out = 100 - BandUtilization(arg) - BandOffline(arg)

\* the example of the claim has been scored
C15_Witness == called /\ arg = Example15 /\ out = 70

\* score(utilization=50, temperature=75, rx_power=-31, total_onus=10,
\* offline=4)
Example16 ==
  ("utilization" :> Some(50)) @@ ("temperature" :> Some(75))
    @@ ("rx_power" :> Some(-31)) @@ ("total_onus" :> Some(10))
    @@ ("offline_onus" :> Some(4))

\* C16 (as claimed): the metric set utilization 50, temperature 75,
\* rx_power -31, total_onus 10, offline_onus 4 scores 40.
C16_ExampleScores40 == (called /\ arg = Example16) => out = 40

\* C16 (amended): the metric set utilization 50, temperature 75, rx_power
\* -31, total_onus 10, offline_onus 4 scores 30: a temperature above 70
\* costs 20, not 10.
C16_ExampleScores30 == (called /\ arg = Example16) => out = 30

\* the second example has been scored
C16_Witness == called /\ arg = Example16 /\ out \in 0..100

\* C17 (as claimed): for thresholds of any sign and every metric set the
\* evaluation ends without error and emits, in the order temperature,
\* utilization, rx_power, an alert for each metric that is present and
\* beyond its threshold, and none for an absent metric.
C17_EvaluationTotal ==
  called =>
    out = [raised |-> FALSE, alerts |-> DueAlerts(arg.pon_port, arg.metrics)]

\* the coroutine of o waits for a connection of the exhausted pool
Waiting(o) ==
  pc = "gather" /\ o \in olts /\ o \notin conn /\ AtAcquire(o) /\ inUse = max_size

\* C20: with a pool smaller than the number of OLTs polled at once, one
\* connection of which the coordinating task holds during the whole
\* fan-out, the connections checked out never exceed the size of the pool,
\* a coroutine that finds the pool exhausted waits and does not fail for
\* it, and every poll_olt of the cycle ends.
C20_PoolBackpressure ==
  /\ [](/\ max_size < Cardinality(OLTS)
        /\ inUse <= max_size
        /\ inUse = Cardinality(conn) + (IF pc = "gather" THEN 1 ELSE 0)
        /\ \A o \in OLTS :
             /\ Waiting(o) => task[o].res = "none"
             /\ task[o].res = "false" =>
                  task[o].err \in {"vendor", "ports", "last_poll"})
  /\ \A o \in OLTS :
       (pc = "gather" /\ o \in olts) ~> (task[o].pc = "done")
  /\ (pc = "gather") ~> (pc = "aggregate")

\* a coroutine waits while another holds the last connection of the pool
C20_Witness ==
  /\ inUse = max_size
  /\ \E o1, o2 \in OLTS : o1 # o2 /\ o1 \in conn /\ Waiting(o2)

\* C27: the last-poll timestamp of an OLT is that of the cycle exactly
\* when the OLT is counted as success in the aggregate of the cycle: an OLT
\* that returned False keeps its old timestamp, and a failure of the
\* last-poll update makes the OLT fail.
C27_LastPollIffSuccess ==
  /\ \A o \in OLTS :
       /\ (pc = "gather" /\ last_poll[o] = cycle) => IsSuccess(task[o])
       /\ task[o].res = "false" => last_poll[o] < cycle
       /\ task[o].err = "last_poll" => task[o].res = "false"
  /\ AfterGather =>
       /\ \A o \in olts : last_poll[o] = cycle <=> IsSuccess(task[o])
       /\ results.success = Cardinality({o \in olts : last_poll[o] = cycle})
       /\ results.failed = Cardinality({o \in olts : last_poll[o] < cycle})

\* the last-poll update of one OLT failed, that of another succeeded
C27_Witness ==
  /\ AfterGather
  /\ \E o1, o2 \in olts :
       /\ task[o1].err = "last_poll" /\ last_poll[o1] < cycle
       /\ IsSuccess(task[o2]) /\ last_poll[o2] = cycle

\* C28 (as claimed): an active OLT that carries a tag of the vendor
\* registry is never ended as an unsupported vendor, and its ports are
\* polled.
C28_RegistryTagsAccepted ==
  \A o \in olts :
    OltVendor(o) \in VENDORS =>
      /\ task[o].err # "vendor"
      /\ (task[o].pc = "done" /\ task[o].err = "none") =>
           \A q \in PortsOf(o) : plog[q].read # "no"

\* C21: the polling loop does not stop by itself.  After every cycle, also
\* one whose fetch of the OLT list raised, run() sleeps and starts the next
\* fetch; every fetch that succeeds polls every active OLT; and no pass of
\* the loop ends it (cycles are followed up to MaxCycles).
C21_LoopNeverStops ==
  /\ [](pc \in {"fetch_olts", "gather", "aggregate", "sleep", "error_sleep"})
  /\ [](pc = "gather" => olts = ActiveOlts)
  /\ (pc \in {"gather", "aggregate", "sleep", "error_sleep"}) ~> (pc = "fetch_olts")
  /\ \A c \in 1..MaxCycles : <>(cycle = c)
  /\ \A c \in 1..MaxCycles : (pc = "error_sleep" /\ cycle < c) ~> (cycle = c)

\* a cycle whose fetch raised is followed by a cycle that polls the OLTs
C21_Witness ==
  /\ cycle = 2
  /\ pc = "gather"
  /\ faults = 1
  /\ olts = ActiveOlts
  /\ \A o \in OLTS : last_poll[o] = 0

\* the latest-state row of port p was written in this cycle and the point
\* or the cache entry of the same poll was not
PartlyApplied(p) ==
  plog[p].pgw = "ok" /\ (plog[p].tsw # "ok" \/ plog[p].cw # "ok")

\* C22 (as claimed): once the process has exited after a shutdown signal,
\* received in whatever phase, the pool, the cache client and the
\* time-series client have been closed and no port is left with a part of
\* its sink writes applied.
C22_CleanShutdown ==
  pc = "exited" =>
    /\ opened = {}
    /\ inUse = 0
    /\ \A p \in PORTS : ~PartlyApplied(p)

\* min(100, max(0, ((bytesIn+bytesOut)*8 / intervalSeconds / 1e6)
\*                  / maxBandwidthMbps * 100)), counters in megabits
SharedUtilization(cin, cout, interval, max_bandwidth) ==
  Min(100, Max(0, ((cin + cout) * 100) \div (interval * max_bandwidth)))

\* C23 (as claimed): for every vendor profile and every input, negative
\* counters included, the utilization is a percentage in 0..100 and equals
\* the shared formula.
C23_UtilizationClamped ==
  called =>
    /\ out \in 0..100
    /\ (arg.interval > 0 /\ arg.max_bandwidth > 0) =>
         out = SharedUtilization(arg.cin, arg.cout, arg.interval,
                                 arg.max_bandwidth)

\* the parse function of the vendor and metric has been applied to raw
Parsed(vendor, metric) == called /\ arg.vendor = vendor /\ arg.metric = metric
IsInt(raw) == raw.kind = "int"

\* C24: VSOL parse_power of a raw integer r is absent iff r = 0 or
\* r < -4000 or r > 1000, and r/100 otherwise; 0 and 1500 are absent, the
\* limits -4000 and 1000 are valid.
C24_VsolPowerRange ==
  (Parsed("VSOL", "power") /\ IsInt(arg.raw)) =>
    LET r == arg.raw.v
    IN /\ out = None <=> (r = 0 \/ r < -4000 \/ r > 1000)
       /\ out # None => out = Some(Ratio(r, 100))
       /\ r \in {0, 1500} => out = None
       /\ r = -4000 => out = Some(Ratio(-4000, 100))
       /\ r = 1000 => out = Some(Ratio(1000, 100))

\* a limit of the range has been parsed
C24_Witness ==
  /\ Parsed("VSOL", "power")
  /\ arg.raw \in {IntRaw(-4000), IntRaw(1000)}
  /\ out # None

\* C25: ZTE parse_power is absent iff the raw value is 0 or missing (or not
\* a number) and raw/100 otherwise; parse_temperature is raw/256 and
\* parse_voltage raw/10000 for every raw integer; so the tx_power and
\* rx_power the reader stores for a ZTE port are never the number 0.
C25_ZtePowerNeverZero ==
  /\ Parsed("ZTE", "power") =>
       /\ out = None <=> (~IsInt(arg.raw) \/ arg.raw.v = 0)
       /\ out # None => out = Some(Ratio(arg.raw.v, 100)) /\ out[1].num # 0
       /\ IsInt(arg.raw) =>
            \A k \in {"tx_power", "rx_power"} :
              /\ ParseMetric(k, arg.raw.v) = Whole(out)
              /\ ParseMetric(k, arg.raw.v) = Some(0) => out[1].num # 0
  /\ (Parsed("ZTE", "temperature") /\ IsInt(arg.raw)) =>
       out = Some(Ratio(arg.raw.v, 256))
  /\ (Parsed("ZTE", "voltage") /\ IsInt(arg.raw)) =>
       out = Some(Ratio(arg.raw.v, 10000))

\* a raw power of 0 has been parsed to the absent value
C25_Witness ==
  Parsed("ZTE", "power") /\ arg.raw = IntRaw(0) /\ out = None

\* C26 (as claimed): for every vendor profile and every numeric metric, a
\* raw value that cannot be converted, missing or not a number, parses to
\* the absent value and never to the number 0.
C26_UnconvertibleIsAbsent ==
  (called /\ ~IsInt(arg.raw)) => out = None

====
